---------------------------- MODULE Spec2Model ----------------------------
(***************************************************************************)
(* MergeMate: the file ingestion and merge pipeline.                       *)
(*                                                                         *)
(* Two copies of the pipeline exist in the repository: the single-file     *)
(* script src/file_merger.py ("script") and the package src/src/*.py       *)
(* ("app").  Text, paths and file data are modelled as sequences of        *)
(* one-character strings so that headers, sentinels, extensions and        *)
(* lexicographic order are computed, not assumed.                          *)
(***************************************************************************)
EXTENDS Integers, Sequences, FiniteSets, TLC

(***************************************************************************)
(* Bounds of the model.                                                    *)
(***************************************************************************)
MaxFiles == 2        \* uploaded files (length of the path list) per run
MaxEntries == 3      \* entries of an uploaded archive
MaxText == 4         \* length of the texts given to the statistics alone

NONE == "None"       \* Python's None

(***************************************************************************)
(* Text helpers.                                                           *)
(***************************************************************************)
\* the elements of a sequence
Range(s) == {s[i] : i \in 1..Len(s)}

\* '-' * n, '=' * n
Rep(c, n) == [i \in 1..n |-> c]

\* "".join(pieces)
RECURSIVE Join(_)
Join(pieces) ==
    IF pieces = <<>> THEN <<>> ELSE Head(pieces) \o Join(Tail(pieces))

\* text.count(c)
Count(text, c) == Cardinality({i \in 1..Len(text) : text[i] = c})

\* text.rfind(c), 1-based; 0 when c does not occur
RFind(text, c) ==
    LET hits == {i \in 1..Len(text) : text[i] = c}
    IN  IF hits = {} THEN 0 ELSE CHOOSE i \in hits : \A j \in hits : j <= i

\* the characters of the model in ascending code-point order
CodeOrder ==
    <<"\n", " ", "'", "-", ".", "/", "0", "1", "2", "3", "4", "5", "6", "7",
      "8", "9", ":", "=", "A", "B", "C", "D", "E", "I", "M", "N", "P", "R",
      "T", "X", "Y", "[", "]", "a", "b", "c", "d", "e", "f", "g", "h", "i",
      "j", "k", "l", "m", "n", "o", "p", "q", "r", "s", "t", "u", "v", "w",
      "x", "y", "z">>

\* rank of a character in code-point order (ord(c) up to a monotone map)
Ord(c) == CHOOSE i \in 1..Len(CodeOrder) : CodeOrder[i] = c

\* str.__lt__: lexicographic comparison by code point
RECURSIVE StrLess(_, _)
StrLess(a, b) ==
    IF b = <<>> THEN FALSE
    ELSE IF a = <<>> THEN TRUE
    ELSE IF Head(a) = Head(b) THEN StrLess(Tail(a), Tail(b))
    ELSE Ord(Head(a)) < Ord(Head(b))

\* str.lower() on one character
LowerChar(c) ==
    CASE c = "A" -> "a" [] c = "B" -> "b" [] c = "C" -> "c" [] c = "D" -> "d"
      [] c = "E" -> "e" [] c = "I" -> "i" [] c = "M" -> "m" [] c = "N" -> "n"
      [] c = "P" -> "p" [] c = "R" -> "r" [] c = "T" -> "t" [] c = "X" -> "x"
      [] c = "Y" -> "y" [] OTHER -> c

\* str.lower()
Lower(s) == [i \in 1..Len(s) |-> LowerChar(s[i])]

(***************************************************************************)
(* Paths.                                                                  *)
(***************************************************************************)
\* os.path.join(a, b) for a relative b
PathJoin(a, b) == a \o <<"/">> \o b

\* os.path.basename(path): what follows the last '/'
basename(path) == SubSeq(path, RFind(path, "/") + 1, Len(path))

\* pathlib.PurePath.suffix: the last component from its last '.', unless that
\* dot is the first or the last character of the component
Suffix(path) ==
    LET name == basename(path)
        i == RFind(name, ".")
    IN  IF 1 < i /\ i < Len(name) THEN SubSeq(name, i, Len(name)) ELSE <<>>

\* tempfile.gettempdir()
TmpRoot == <<"/", "t">>

\* SUPPORTED_EXTENSIONS of src/src/file_utils.py
SUPPORTED_EXTENSIONS ==
    {<<".", "t", "x", "t">>,
     <<".", "x", "m", "l">>,
     <<".", "j", "a", "v", "a">>,
     <<".", "p", "y">>,
     <<".", "j", "s">>,
     <<".", "h", "t", "m", "l">>,
     <<".", "c", "s", "s">>,
     <<".", "j", "s", "o", "n">>,
     <<".", "m", "d">>,
     <<".", "y", "m", "l">>,
     <<".", "y", "a", "m", "l">>,
     <<".", "i", "n", "i">>,
     <<".", "c", "f", "g">>,
     <<".", "c", "o", "n", "f">>,
     <<".", "l", "o", "g">>,
     <<".", "s", "q", "l">>,
     <<".", "c">>,
     <<".", "c", "p", "p">>,
     <<".", "h">>,
     <<".", "h", "p", "p">>,
     <<".", "c", "s">>,
     <<".", "p", "h", "p">>,
     <<".", "r", "b">>,
     <<".", "g", "o">>,
     <<".", "r", "s">>,
     <<".", "s", "h">>,
     <<".", "b", "a", "t">>,
     <<".", "p", "s", "1">>,
     <<".", "r">>,
     <<".", "s", "c", "a", "l", "a">>,
     <<".", "k", "t">>,
     <<".", "s", "w", "i", "f", "t">>,
     <<".", "d", "a", "r", "t">>,
     <<".", "t", "s", "x">>,
     <<".", "j", "s", "x">>,
     <<".", "v", "u", "e">>,
     <<".", "s", "v", "e", "l", "t", "e">>,
     <<".", "t", "s">>,
     <<".", "c", "o", "f", "f", "e", "e">>,
     <<".", "l", "e", "s", "s">>,
     <<".", "s", "c", "s", "s">>,
     <<".", "s", "a", "s", "s">>,
     <<".", "s", "t", "y", "l">>,
     <<".", "p", "u", "g">>,
     <<".", "e", "j", "s">>,
     <<".", "h", "b", "s">>,
     <<".", "m", "u", "s", "t", "a", "c", "h", "e">>}

\* text_extensions, the copy of the set inside the script's is_text_file
text_extensions ==
    {<<".", "t", "x", "t">>,
     <<".", "x", "m", "l">>,
     <<".", "j", "a", "v", "a">>,
     <<".", "p", "y">>,
     <<".", "j", "s">>,
     <<".", "h", "t", "m", "l">>,
     <<".", "c", "s", "s">>,
     <<".", "j", "s", "o", "n">>,
     <<".", "m", "d">>,
     <<".", "y", "m", "l">>,
     <<".", "y", "a", "m", "l">>,
     <<".", "i", "n", "i">>,
     <<".", "c", "f", "g">>,
     <<".", "c", "o", "n", "f">>,
     <<".", "l", "o", "g">>,
     <<".", "s", "q", "l">>,
     <<".", "c">>,
     <<".", "c", "p", "p">>,
     <<".", "h">>,
     <<".", "h", "p", "p">>,
     <<".", "c", "s">>,
     <<".", "p", "h", "p">>,
     <<".", "r", "b">>,
     <<".", "g", "o">>,
     <<".", "r", "s">>,
     <<".", "s", "h">>,
     <<".", "b", "a", "t">>,
     <<".", "p", "s", "1">>,
     <<".", "r">>,
     <<".", "s", "c", "a", "l", "a">>,
     <<".", "k", "t">>,
     <<".", "s", "w", "i", "f", "t">>,
     <<".", "d", "a", "r", "t">>,
     <<".", "t", "s", "x">>,
     <<".", "j", "s", "x">>,
     <<".", "v", "u", "e">>,
     <<".", "s", "v", "e", "l", "t", "e">>,
     <<".", "t", "s">>,
     <<".", "c", "o", "f", "f", "e", "e">>,
     <<".", "l", "e", "s", "s">>,
     <<".", "s", "c", "s", "s">>,
     <<".", "s", "a", "s", "s">>,
     <<".", "s", "t", "y", "l">>,
     <<".", "p", "u", "g">>,
     <<".", "e", "j", "s">>,
     <<".", "h", "b", "s">>,
     <<".", "m", "u", "s", "t", "a", "c", "h", "e">>}

\* an extension test that does not fold case
is_text_file_case_sensitive(file_path) == Suffix(file_path) \in SUPPORTED_EXTENSIONS

\* is_text_file(file_path)
is_text_file(file_path) == Lower(Suffix(file_path)) \in SUPPORTED_EXTENSIONS

\* the script's is_text_file, with its own copy of the extension set
is_text_file_script(file_path) == Lower(Suffix(file_path)) \in text_extensions

(***************************************************************************)
(* Files and decoding.                                                     *)
(*                                                                         *)
(* A byte is an ASCII character or one of the two high bytes "0x81" and    *)
(* "0xE9"; a decoded high byte is the text unit "U+0081" or "U+00E9".      *)
(* A file carries the encoding chardet.detect reports for its bytes        *)
(* (guess), which is NONE when detection is inconclusive.  chardet is an   *)
(* external library: it may report a codec under which Python rejects the  *)
(* bytes (GB2312 for GBK text) or one Python does not have (EUC-TW).       *)
(***************************************************************************)
HighBytes == {"0x81", "0xE9"}

\* the codecs Python knows among the names chardet may report
KnownCodecs == {"ascii", "utf-8", "ISO-8859-1", "GB2312"}

\* what one byte decodes to under a codec; NONE when it is invalid there
\* (the high bytes of the model never form a valid multi-byte sequence of
\* UTF-8 or GB2312, and ASCII has no high bytes)
DecodeByte(b, codec) ==
    IF b \notin HighBytes THEN b
    ELSE IF codec = "ISO-8859-1" THEN (IF b = "0xE9" THEN "U+00E9" ELSE "U+0081")
    ELSE NONE

\* bytes.decode(codec, errors='strict') succeeds
Decodable(data, codec) == \A i \in 1..Len(data) : DecodeByte(data[i], codec) # NONE

\* bytes.decode(codec, errors='ignore'): invalid bytes are dropped
RECURSIVE DecodeIgnore(_, _)
DecodeIgnore(data, codec) ==
    IF data = <<>> THEN <<>>
    ELSE (IF DecodeByte(Head(data), codec) = NONE THEN <<>>
          ELSE <<DecodeByte(Head(data), codec)>>) \o DecodeIgnore(Tail(data), codec)

\* the outcome of open(path) on the file system f
OpenError(f, path) ==
    IF path \notin DOMAIN f THEN "ENOENT"
    ELSE IF f[path].kind = "dir" THEN "EISDIR"
    ELSE IF ~f[path].readable THEN "EACCES"
    ELSE "ok"

\* str(e) of the OSError raised by open(path)
OSErrorText(err, path) ==
    (CASE err = "ENOENT" ->
            <<"[", "E", "r", "r", "n", "o", " ", "2", "]", " ", "N", "o", " ",
              "s", "u", "c", "h", " ", "f", "i", "l", "e", " ", "o", "r", " ",
              "d", "i", "r", "e", "c", "t", "o", "r", "y", ":", " ">>
       [] err = "EACCES" ->
            <<"[", "E", "r", "r", "n", "o", " ", "1", "3", "]", " ", "P", "e",
              "r", "m", "i", "s", "s", "i", "o", "n", " ", "d", "e", "n", "i",
              "e", "d", ":", " ">>
       [] OTHER ->
            <<"[", "E", "r", "r", "n", "o", " ", "2", "1", "]", " ", "I", "s",
              " ", "a", " ", "d", "i", "r", "e", "c", "t", "o", "r", "y", ":",
              " ">>)
    \o <<"'">> \o path \o <<"'">>

\* str(e) of the LookupError raised for a codec Python does not know
LookupErrorText(codec) ==
    <<"u", "n", "k", "n", "o", "w", "n", " ", "e", "n", "c", "o", "d", "i",
      "n", "g", ":", " ">> \o <<codec>>

\* f"[Error reading {file_path}: {str(e)}]"
ErrorReading(file_path, text) ==
    <<"[", "E", "r", "r", "o", "r", " ", "r", "e", "a", "d", "i", "n", "g", " ">>
    \o file_path \o <<":", " ">> \o text \o <<"]">>

\* a sentinel that does not say which file failed
CouldNotReadUnnamed(file_path) ==
    <<"[", "E", "r", "r", "o", "r", ":", " ", "C", "o", "u", "l", "d", " ",
      "n", "o", "t", " ", "r", "e", "a", "d", " ", "f", "i", "l", "e", "]">>

\* f"[Error: Could not read file {file_path}]"
CouldNotRead(file_path) ==
    <<"[", "E", "r", "r", "o", "r", ":", " ", "C", "o", "u", "l", "d", " ",
      "n", "o", "t", " ", "r", "e", "a", "d", " ", "f", "i", "l", "e", " ">>
    \o file_path \o <<"]">>

\* a detector that hands on chardet's answer even when it is None
detect_encoding_no_default(f, file_path) ==
    IF OpenError(f, file_path) # "ok" THEN "utf-8" ELSE f[file_path].guess

\* detect_encoding(file_path) on the file system f
detect_encoding(f, file_path) ==
    IF OpenError(f, file_path) # "ok" THEN "utf-8"
    ELSE IF f[file_path].guess # NONE THEN f[file_path].guess
    ELSE "utf-8"

\* a first attempt that hands every failure to the fallback, as a bare
\* `except:` around the first open() would
primary_read_any_error_falls_back(f, file_path, enc) ==
    IF OpenError(f, file_path) = "ok" /\ enc \in KnownCodecs
          /\ Decodable(f[file_path].data, enc)
      THEN [outcome |-> "text", ok |-> TRUE,
            content |-> DecodeIgnore(f[file_path].data, enc)]
    ELSE [outcome |-> "decode_error", ok |-> FALSE, content |-> <<>>]

\* the first attempt of read_file_content: open(file_path, 'r', encoding)
\* and read().  "decode_error" stands for the UnicodeDecodeError that sends
\* the function to its fallback.
primary_read(f, file_path, enc) ==
    IF OpenError(f, file_path) # "ok"
      THEN [outcome |-> "error", ok |-> FALSE,
            content |-> ErrorReading(file_path,
                            OSErrorText(OpenError(f, file_path), file_path))]
    ELSE IF enc \notin KnownCodecs
      THEN [outcome |-> "error", ok |-> FALSE,
            content |-> ErrorReading(file_path, LookupErrorText(enc))]
    ELSE IF ~Decodable(f[file_path].data, enc)
      THEN [outcome |-> "decode_error", ok |-> FALSE, content |-> <<>>]
    ELSE [outcome |-> "text", ok |-> TRUE,
          content |-> DecodeIgnore(f[file_path].data, enc)]

\* a fallback that decodes strictly, so that invalid UTF-8 ends in the sentinel
fallback_read_strict(f, file_path) ==
    IF OpenError(f, file_path) # "ok" \/ ~Decodable(f[file_path].data, "utf-8")
      THEN [outcome |-> "error", ok |-> FALSE, content |-> CouldNotRead(file_path)]
    ELSE [outcome |-> "text", ok |-> TRUE,
          content |-> DecodeIgnore(f[file_path].data, "utf-8")]

\* the second attempt: open(file_path, 'r', encoding='utf-8', errors='ignore')
fallback_read(f, file_path) ==
    IF OpenError(f, file_path) # "ok"
      THEN [outcome |-> "error", ok |-> FALSE, content |-> CouldNotRead(file_path)]
    ELSE [outcome |-> "text", ok |-> TRUE,
          content |-> DecodeIgnore(f[file_path].data, "utf-8")]

(***************************************************************************)
(* Archive expansion.                                                      *)
(*                                                                         *)
(* An archive is the sequence of its entry names in archive order (a name  *)
(* ending in '/' is a directory entry) and the point where its extraction  *)
(* fails: 0 never, -1 when ZipFile() rejects the upload, k when extracting *)
(* entry k raises (bad CRC, unsupported compression, I/O failure).         *)
(***************************************************************************)
\* ZipInfo.is_dir()
IsDirEntry(name) == name # <<>> /\ name[Len(name)] = "/"

\* the path below temp_dir an entry is extracted to
EntryPath(temp_dir, name) ==
    PathJoin(temp_dir, IF IsDirEntry(name) THEN SubSeq(name, 1, Len(name) - 1) ELSE name)

\* os.path.dirname(path)
dirname(path) == SubSeq(path, 1, RFind(path, "/") - 1)

\* a is a proper ancestor directory of the path b
IsAncestor(a, b) ==
    Len(a) < Len(b) /\ SubSeq(b, 1, Len(a)) = a /\ b[Len(a) + 1] = "/"

\* the directories ZipFile.extract creates on the way to a path
ParentDirs(temp_dir, path) ==
    {SubSeq(path, 1, i - 1) : i \in {j \in Len(temp_dir) + 2..Len(path) : path[j] = "/"}}

Dir == [kind |-> "dir", data |-> <<>>, guess |-> NONE, readable |-> TRUE]

\* the content of every file entry of the model
EntryFile == [kind |-> "file", data |-> <<"h", "i">>, guess |-> "ascii", readable |-> TRUE]

\* tempfile.mkdtemp(): a fresh directory below the temporary root
mkdtemp(f) ==
    LET name(i) == PathJoin(TmpRoot, <<"t", "m", "p", CodeOrder[7 + i]>>)
    IN  name(CHOOSE i \in 0..9 : name(i) \notin DOMAIN f
                                  /\ \A j \in 0..(i - 1) : name(j) \in DOMAIN f)

\* zip_ref.extractall(temp_dir) of the given entries
extractall(f, temp_dir, entries) ==
    LET names == Range(entries)
        files == {EntryPath(temp_dir, n) : n \in {m \in names : ~IsDirEntry(m)}}
        dirs == {temp_dir}
                \cup {EntryPath(temp_dir, n) : n \in {m \in names : IsDirEntry(m)}}
                \cup UNION {ParentDirs(temp_dir, p) : p \in files}
    IN  [p \in DOMAIN f \cup files \cup dirs |->
            IF p \in files THEN EntryFile
            ELSE IF p \in dirs THEN Dir
            ELSE f[p]]

\* the orders in which os.walk(top) may hand out the regular files below
\* top: top-down, directory by directory, each listing in any order
WalkOrders(f, top) ==
    LET files == {p \in DOMAIN f : f[p].kind = "file" /\ IsAncestor(top, p)}
        n == Cardinality(files)
    IN  {w \in [1..n -> files] :
            /\ \A i, j \in 1..n : w[i] = w[j] => i = j
            /\ \A i, j, k \in 1..n :
                  i < j /\ j < k /\ dirname(w[i]) = dirname(w[k])
                      => dirname(w[j]) = dirname(w[i])
            /\ \A i, j \in 1..n :
                  i < j => ~IsAncestor(dirname(w[j]), dirname(w[i]))}

\* sorted(file_paths): ascending by code point, by insertion
RECURSIVE Insert(_, _)
Insert(s, x) ==
    IF s = <<>> THEN <<x>>
    ELSE IF StrLess(x, Head(s)) THEN <<x>> \o s
    ELSE <<Head(s)>> \o Insert(Tail(s), x)

\* a listing returned in walk order, without sorting
unsorted(s) == s

RECURSIVE sorted(_)
sorted(s) == IF s = <<>> THEN <<>> ELSE Insert(sorted(Tail(s)), Head(s))

\* how far extractall gets before it raises
Extracted(zip) ==
    IF zip.failsAt = 0 THEN zip.entries
    ELSE IF zip.failsAt = -1 THEN <<>>
    ELSE SubSeq(zip.entries, 1, zip.failsAt - 1)

\* extract_zip_files of src/src/zip_utils.py for the walk order w: the
\* listing it returns, or the single exception it raises
extract_zip_files(zip, w) ==
    IF zip.failsAt # 0
    THEN [kind |-> "raise", paths |-> <<>>, shown |-> <<>>]
    ELSE [kind |-> "list", paths |-> sorted(SelectSeq(w, is_text_file)), shown |-> <<>>]

\* extract_zip_files of src/file_merger.py: on failure it shows the error
\* itself and returns an empty list
extract_zip_files_script(zip, w) ==
    IF zip.failsAt # 0
    THEN [kind |-> "list", paths |-> <<>>, shown |-> <<"Error extracting zip file">>]
    ELSE [kind |-> "list", paths |-> sorted(SelectSeq(w, is_text_file_script)),
          shown |-> <<>>]

(***************************************************************************)
(* Merge engine and statistics.                                            *)
(***************************************************************************)
\* the default separator "\n" + "=" * 80 + "\n"
DefaultSeparator == <<"\n">> \o Rep("=", 80) \o <<"\n">>

\* a header whose dashes only cover the name, not the colon
HeaderShortRule(filename) ==
    <<"\n">> \o filename \o <<":", "\n">> \o Rep("-", Len(filename)) \o <<"\n">>

\* f"\n{filename}:\n{'-' * (len(filename) + 1)}\n"
Header(filename) ==
    <<"\n">> \o filename \o <<":", "\n">> \o Rep("-", Len(filename) + 1) \o <<"\n">>

\* file_path != file_paths[-1]: the test that guards the separator
NotLast(file_path, paths) == file_path # paths[Len(paths)]

\* a loop that visits the paths in sorted order instead of list order
LoopPathSorted(paths, i) == sorted(paths)[i]

\* the path the loop "for file_path in file_paths" visits in iteration i
LoopPath(paths, i) == paths[i]

\* statistics that count line breaks without adding one
render_statistics_breaks_only(text, paths) ==
    [file_count |-> Len(paths),
     char_count |-> Len(text),
     line_count |-> Count(text, "\n")]

\* render_statistics(merged_content, file_paths)
render_statistics(text, paths) ==
    [file_count |-> Len(paths),
     char_count |-> Len(text),
     line_count |-> Count(text, "\n") + 1]

(***************************************************************************)
(* Inputs of the model.                                                    *)
(***************************************************************************)
foo_txt == <<"f", "o", "o", ".", "t", "x", "t">>
bar_txt == <<"b", "a", "r", ".", "t", "x", "t">>
a_py == <<"a", ".", "p", "y">>

\* the files a user may upload: name, bytes, and what chardet reports
UploadChoices ==
    {[name |-> foo_txt, data |-> <<"h", "i">>, guess |-> "ascii"],
     [name |-> bar_txt, data |-> <<"b", "y", "e">>, guess |-> "ascii"],
     [name |-> foo_txt, data |-> <<"h", "0x81">>, guess |-> "GB2312"],
     [name |-> bar_txt, data |-> <<"0xE9", "\n">>, guess |-> "ISO-8859-1"],
     [name |-> a_py, data |-> <<>>, guess |-> NONE],
     [name |-> a_py, data |-> <<"0x81", "a">>, guess |-> NONE],
     [name |-> a_py, data |-> <<"h", "i">>, guess |-> "EUC-TW"]}

\* the separators a user may choose
Separators == {DefaultSeparator, <<"#", "\n">>}

\* st.text_input("Output filename:", value="merged_files.txt")
output_filename ==
    <<"m", "e", "r", "g", "e", "d", "_", "f", "i", "l", "e", "s", ".", "t", "x", "t">>

\* the entries an uploaded archive may hold
EntryChoices ==
    {<<"b", ".", "p", "y">>,
     <<"a", ".", "t", "x", "t">>,
     <<"c", ".", "m", "d">>,
     <<"x", ".", "e", "x", "e">>,
     <<"R", "E", "A", "D", "M", "E">>,
     <<".", "p", "y">>,
     <<"d", "/">>,
     <<"d", "/", "E", ".", "T", "X", "T">>}

NoZip == [entries |-> <<>>, failsAt |-> 0]
NoResult == [kind |-> "none", paths |-> <<>>, shown |-> <<>>]
NoStats == [file_count |-> -1, char_count |-> -1, line_count |-> -1]
NoSessions == <<>>

(***************************************************************************)
(* State.                                                                  *)
(***************************************************************************)
VARIABLES
    copy,            \* "script" (src/file_merger.py) or "app" (src/src)
    upload_method,   \* the st.radio choice
    uploaded_files,  \* the files of st.file_uploader, in upload order
    zip_file,        \* the uploaded archive
    separator,       \* the separator of render_options
    fs,              \* the file system: path -> file
    pc,              \* position of the run
    file_paths,      \* the path list handed to merge_files
    temp_files,      \* the paths the run has to delete
    idx,             \* position of merge_files' loop in file_paths
    merged_content,  \* merge_files' list of pieces, each with a record of
                     \* the append that produced it
    encoding,        \* read_file_content's local: the detected encoding
    reads,           \* the paths read_file_content was called with, in order
    detected,        \* the values detect_encoding returned, in order, each
                     \* with what its open() met and what chardet reported
    attempts,        \* the attempts of read_file_content to open and decode,
                     \* in order: which read, which attempt, what open()
                     \* met, the encoding used and how the attempt ended
    merged,          \* the value merge_files returned
    stats,           \* the three metrics of render_statistics
    zip_result,      \* what extract_zip_files did: returned a list or raised
    st_errors,       \* the messages given to st.error
    sessions         \* the browser sessions served at once: session -> its run

vars == <<copy, upload_method, uploaded_files, zip_file, separator, fs, pc,
          file_paths, temp_files, idx, merged_content, encoding, reads,
          detected, attempts, merged, stats, zip_result, st_errors, sessions>>

inputs == <<copy, upload_method, uploaded_files, zip_file, separator>>

Init ==
    /\ copy \in {"script", "app"}
    /\ upload_method = "Individual Files"
    /\ uploaded_files \in UNION {[1..n -> UploadChoices] : n \in 1..MaxFiles}
    /\ zip_file = NoZip
    /\ separator \in Separators
    /\ fs = <<>>
    /\ pc = "start"
    /\ file_paths = <<>>
    /\ temp_files = <<>>
    /\ idx = 1
    /\ merged_content = <<>>
    /\ encoding = NONE
    /\ reads = <<>>
    /\ detected = <<>>
    /\ attempts = <<>>
    /\ sessions = NoSessions
    /\ merged = NONE
    /\ stats = NoStats
    /\ zip_result = NoResult
    /\ st_errors = <<>>

(***************************************************************************)
(* Upload of individual files.                                             *)
(***************************************************************************)
File(data, guess) == [kind |-> "file", data |-> data, guess |-> guess, readable |-> TRUE]

\* the file system after writing the files ups[1..] to the paths ps[1..], in
\* order: a later write to the same path replaces the earlier one
WriteAll(f, ps, ups) ==
    [p \in DOMAIN f \cup Range(ps) |->
        IF p \in Range(ps)
        THEN LET last == CHOOSE i \in 1..Len(ps) :
                            ps[i] = p /\ \A j \in 1..Len(ps) : ps[j] = p => j <= i
             IN  File(ups[last].data, ups[last].guess)
        ELSE f[p]]

\* render_file_upload (main's upload branch in the script), "Individual Files"
RenderFileUpload ==
    /\ pc = "start"
    /\ upload_method = "Individual Files"
    /\ LET paths == [i \in 1..Len(uploaded_files) |->
                        PathJoin(TmpRoot, uploaded_files[i].name)]
       IN  /\ fs' = WriteAll(fs, paths, uploaded_files)
           /\ file_paths' = paths
           /\ temp_files' = paths
           /\ pc' = IF paths # <<>> THEN "loop" ELSE "done"
    /\ UNCHANGED <<inputs, sessions, idx, merged_content, encoding, reads, detected, attempts,
                   merged, stats, zip_result, st_errors>>

(***************************************************************************)
(* merge_files, one loop iteration at a time.  An iteration is split where *)
(* it opens the file: in detect_encoding, in the first attempt of          *)
(* read_file_content and in its fallback attempt.                          *)
(***************************************************************************)
\* a piece of merged_content: its text, and a record of the append that
\* produced it (for a content piece: the success flag read_file_content
\* returned, the attempt that produced it and what open() met there)
Piece(kind, text, ok, via, open) ==
    [kind |-> kind, text |-> text, ok |-> ok, via |-> via, open |-> open]

Texts(pieces) == [i \in 1..Len(pieces) |-> pieces[i].text]

\* the end of an iteration: append the content, then the separator unless
\* the path equals the last one; after the last iteration, join and return
FinishIteration(file_path, r, via) ==
    LET withContent == Append(merged_content,
                              Piece("content", r.content, r.ok, via,
                                    OpenError(fs, file_path)))
        withSep == IF NotLast(file_path, file_paths)
                   THEN Append(withContent, Piece("separator", separator, TRUE, "", ""))
                   ELSE withContent
    IN  /\ merged_content' = withSep
        /\ idx' = idx + 1
        /\ IF idx = Len(file_paths)
           THEN pc' = "merged" /\ merged' = Join(Texts(withSep))
           ELSE pc' = "loop" /\ UNCHANGED merged

\* the start of an iteration: the header is appended, read_file_content is
\* entered and detect_encoding returns
DetectEncoding ==
    /\ pc = "loop"
    /\ LET file_path == LoopPath(file_paths, idx)
           enc == detect_encoding(fs, file_path)
       IN  /\ merged_content' = Append(merged_content,
                                       Piece("header", Header(basename(file_path)),
                                             TRUE, "", ""))
           /\ reads' = Append(reads, file_path)
           /\ encoding' = enc
           /\ detected' = Append(detected,
                                 [encoding |-> enc,
                                  open |-> OpenError(fs, file_path),
                                  guess |-> IF OpenError(fs, file_path) = "ok"
                                            THEN fs[file_path].guess ELSE NONE])
    /\ pc' = "primary"
    /\ UNCHANGED <<inputs, sessions, fs, file_paths, temp_files, idx, attempts, merged,
                   stats, zip_result, st_errors>>

\* the record of one attempt of the read in progress
Attempt(kind, file_path, enc, r) ==
    [read |-> Len(reads), attempt |-> kind, open |-> OpenError(fs, file_path),
     encoding |-> enc, outcome |-> r.outcome]

\* the first attempt of read_file_content, with the detected encoding
ReadPrimary ==
    /\ pc = "primary"
    /\ LET file_path == LoopPath(file_paths, idx)
           r == primary_read(fs, file_path, encoding)
       IN  /\ attempts' = Append(attempts, Attempt("primary", file_path, encoding, r))
           /\ IF r.outcome = "decode_error"
              THEN /\ pc' = "fallback"
                   /\ UNCHANGED <<idx, merged_content, merged>>
              ELSE FinishIteration(file_path, r, "primary")
    /\ UNCHANGED <<inputs, sessions, fs, file_paths, temp_files, encoding, reads, detected,
                   stats, zip_result, st_errors>>

\* the fallback attempt of read_file_content, after a UnicodeDecodeError
ReadFallback ==
    /\ pc = "fallback"
    /\ LET file_path == LoopPath(file_paths, idx)
           r == fallback_read(fs, file_path)
       IN  /\ attempts' = Append(attempts, Attempt("fallback", file_path, "utf-8", r))
           /\ FinishIteration(file_path, r, "fallback")
    /\ UNCHANGED <<inputs, sessions, fs, file_paths, temp_files, encoding, reads, detected,
                   stats, zip_result, st_errors>>

\* os.remove of every path of temp_files that still exists
cleanup_temp_files(f, paths) == [p \in DOMAIN f \ Range(paths) |-> f[p]]

\* the rest of the run once merge_files has returned: process_merge saves
\* the document and reports the statistics (not reached when the save
\* fails), then cleanup_temp_files deletes the uploaded copies
SaveAndReport ==
    /\ pc = "merged"
    /\ \E saved \in BOOLEAN :
          IF saved
          THEN /\ fs' = cleanup_temp_files(
                            WriteAll(fs, <<PathJoin(TmpRoot, output_filename)>>,
                                     <<[data |-> merged, guess |-> "utf-8"]>>),
                            temp_files)
               /\ stats' = render_statistics(merged, file_paths)
               /\ UNCHANGED st_errors
          ELSE /\ fs' = cleanup_temp_files(fs, temp_files)
               /\ st_errors' = Append(st_errors, "Error saving file")
               /\ UNCHANGED stats
    /\ pc' = "done"
    /\ UNCHANGED <<inputs, sessions, file_paths, temp_files, idx, merged_content, encoding,
                   reads, detected, attempts, merged, zip_result>>

(***************************************************************************)
(* The environment: while a merge runs, a file may be removed or lose its  *)
(* read permission.  Only files the merge still has to open are touched:   *)
(* what happens to a file after its last read changes no later step.       *)
(***************************************************************************)
\* the paths merge_files has not finished reading
StillToRead == {file_paths[k] : k \in idx..Len(file_paths)}

EnvRemove ==
    /\ pc \in {"loop", "primary", "fallback"}
    /\ \E p \in DOMAIN fs \cap StillToRead : fs' = [q \in DOMAIN fs \ {p} |-> fs[q]]
    /\ UNCHANGED <<inputs, sessions, pc, file_paths, temp_files, idx, merged_content,
                   encoding, reads, detected, attempts, merged, stats, zip_result, st_errors>>

EnvChmod ==
    /\ pc \in {"loop", "primary", "fallback"}
    /\ \E p \in DOMAIN fs \cap StillToRead :
          /\ fs[p].readable
          /\ fs' = [fs EXCEPT ![p].readable = FALSE]
    /\ UNCHANGED <<inputs, sessions, pc, file_paths, temp_files, idx, merged_content,
                   encoding, reads, detected, attempts, merged, stats, zip_result, st_errors>>

(***************************************************************************)
(* Upload of an archive: the "ZIP Archive" branch of render_file_upload    *)
(* (of main in the script), and the branch of run / main on file_paths.    *)
(***************************************************************************)
\* the caller's part after extract_zip_files returned or raised r
UploadZip(r) ==
    /\ zip_result' = r
    /\ file_paths' = r.paths
    /\ st_errors' = st_errors \o r.shown
                     \o (IF r.kind = "raise" THEN <<"Error extracting zip file">> ELSE <<>>)
    /\ pc' = IF r.paths # <<>> THEN "loop" ELSE "done"

\* src/src/app.py with src/src/zip_utils.py
RenderZipUpload ==
    /\ pc = "start"
    /\ upload_method = "ZIP Archive"
    /\ copy = "app"
    /\ LET temp_dir == mkdtemp(fs)
           after == extractall(fs, temp_dir, Extracted(zip_file))
       IN  /\ fs' = after
           /\ \E w \in WalkOrders(after, temp_dir) :
                 UploadZip(extract_zip_files(zip_file, w))
    /\ UNCHANGED <<inputs, sessions, temp_files, idx, merged_content, encoding, reads,
                   detected, attempts, merged, stats>>

\* src/file_merger.py
RenderZipUploadScript ==
    /\ pc = "start"
    /\ upload_method = "ZIP Archive"
    /\ copy = "script"
    /\ LET temp_dir == mkdtemp(fs)
           after == extractall(fs, temp_dir, Extracted(zip_file))
       IN  /\ fs' = after
           /\ \E w \in WalkOrders(after, temp_dir) :
                 UploadZip(extract_zip_files_script(zip_file, w))
    /\ UNCHANGED <<inputs, sessions, temp_files, idx, merged_content, encoding, reads,
                   detected, attempts, merged, stats>>

\* an upload of an archive, before the run looks at it
InitZip ==
    /\ copy \in {"script", "app"}
    /\ upload_method = "ZIP Archive"
    /\ uploaded_files = <<>>
    /\ \E n \in 1..MaxEntries :
          zip_file \in [entries : [1..n -> EntryChoices], failsAt : -1..n]
    /\ separator = DefaultSeparator
    /\ fs = <<>>
    /\ pc = "start"
    /\ file_paths = <<>>
    /\ temp_files = <<>>
    /\ idx = 1
    /\ merged_content = <<>>
    /\ encoding = NONE
    /\ reads = <<>>
    /\ detected = <<>>
    /\ attempts = <<>>
    /\ sessions = NoSessions
    /\ merged = NONE
    /\ stats = NoStats
    /\ zip_result = NoResult
    /\ st_errors = <<>>

NextZip ==
    \/ RenderZipUpload
    \/ RenderZipUploadScript

SpecZip == InitZip /\ [][NextZip]_vars

(***************************************************************************)
(* The statistics alone, on any text and any number of paths.              *)
(***************************************************************************)
RenderStatistics ==
    /\ pc = "statistics"
    /\ stats' = render_statistics(merged, file_paths)
    /\ pc' = "reported"
    /\ UNCHANGED <<inputs, sessions, fs, file_paths, temp_files, idx, merged_content,
                   encoding, reads, detected, attempts, merged, zip_result, st_errors>>

InitStats ==
    /\ copy \in {"script", "app"}
    /\ upload_method = "Individual Files"
    /\ uploaded_files = <<>>
    /\ zip_file = NoZip
    /\ separator = DefaultSeparator
    /\ fs = <<>>
    /\ pc = "statistics"
    /\ file_paths \in UNION {[1..n -> {PathJoin(TmpRoot, foo_txt)}] : n \in 0..MaxFiles}
    /\ temp_files = <<>>
    /\ idx = 1
    /\ merged_content = <<>>
    /\ encoding = NONE
    /\ reads = <<>>
    /\ detected = <<>>
    /\ attempts = <<>>
    /\ sessions = NoSessions
    /\ merged \in UNION {[1..n -> {"a", "\n"}] : n \in 0..MaxText}
    /\ stats = NoStats
    /\ zip_result = NoResult
    /\ st_errors = <<>>

SpecStats == InitStats /\ [][RenderStatistics]_vars

Next ==
    \/ RenderFileUpload
    \/ DetectEncoding
    \/ ReadPrimary
    \/ ReadFallback
    \/ SaveAndReport
    \/ EnvRemove
    \/ EnvChmod

Spec == Init /\ [][Next]_vars

(***************************************************************************)
(* Two browser sessions served by one process.  Streamlit runs the script  *)
(* of every session in a thread of its own, so the runs of two sessions    *)
(* interleave; both use the one tempfile.gettempdir() of the server.  A    *)
(* run is followed from the click on "Merge Files": upload copies written, *)
(* files read one by one, document saved, document read back for the       *)
(* download button, upload copies removed.                                 *)
(*                                                                         *)
(* Every file carries the item it was last written for, <<session, i>> for *)
(* the i-th upload of a session and <<session, 0>> for its document, and   *)
(* every session records the accesses it made to a file of another item.   *)
(***************************************************************************)
Sessions == {1, 2}

\* what the download button of a session holds
NoDownload == [shown |-> FALSE, content |-> <<>>]

\* the uploads and the output names the users of the sessions choose among
SessionUploads ==
    {u \in UploadChoices : u.name \in {foo_txt, bar_txt} /\ u.guess # "ISO-8859-1"}

OutputNames == {output_filename, foo_txt}

\* the session is between its upload and the end of its cleanup
Active(s) == sessions[s].pc \notin {"start", "done"}

\* a file written on behalf of an item
OwnedFile(data, guess, item) == File(data, guess) @@ [owner |-> item]

\* the access op that item makes to path p of the file system f, when p
\* holds a file written for another item of the same session or of a
\* session that is still running
Touch(f, p, item, op) ==
    IF /\ p \in DOMAIN f
       /\ f[p].owner # item
       /\ (f[p].owner[1] = item[1] \/ Active(f[p].owner[1]))
    THEN {[op |-> op, path |-> p, by |-> item, of |-> f[p].owner]}
    ELSE {}

\* the file system after writing ups[1..n] to ps[1..n] for session s, in order
RECURSIVE WriteUploads(_, _, _, _, _)
WriteUploads(f, s, ps, ups, n) ==
    IF n = 0 THEN f
    ELSE LET g == WriteUploads(f, s, ps, ups, n - 1)
         IN  [p \in DOMAIN g \cup {ps[n]} |->
                 IF p = ps[n] THEN OwnedFile(ups[n].data, ups[n].guess, <<s, n>>)
                 ELSE g[p]]

\* the file system after os.remove of ps[1..n], in order
RECURSIVE RemoveAll(_, _, _)
RemoveAll(f, ps, n) ==
    IF n = 0 THEN f
    ELSE LET g == RemoveAll(f, ps, n - 1)
         IN  [p \in DOMAIN g \ {ps[n]} |-> g[p]]

\* read_file_content(file_path) in one step
read_file_content(f, file_path) ==
    LET r == primary_read(f, file_path, detect_encoding(f, file_path))
    IN  IF r.outcome = "decode_error" THEN fallback_read(f, file_path) ELSE r

\* the sessions that are about to merge n uploads
NewSessions(n) ==
    {[uploaded_files |-> ups, output_filename |-> out, pc |-> "start",
      file_paths |-> <<>>, temp_files |-> <<>>, merged_content |-> <<>>,
      merged |-> <<>>, download |-> NoDownload, stats |-> NoStats,
      foreign |-> {}] : ups \in [1..n -> SessionUploads], out \in OutputNames}

\* session 1 merges one upload, session 2 up to MaxFiles uploads
InitSessions ==
    /\ sessions \in [Sessions -> UNION {NewSessions(n) : n \in 1..MaxFiles}]
    /\ Len(sessions[1].uploaded_files) = 1
    /\ copy = "app"
    /\ upload_method = "Individual Files"
    /\ uploaded_files = <<>>
    /\ zip_file = NoZip
    /\ separator = DefaultSeparator
    /\ fs = <<>>
    /\ pc = "sessions"
    /\ file_paths = <<>>
    /\ temp_files = <<>>
    /\ idx = 1
    /\ merged_content = <<>>
    /\ encoding = NONE
    /\ reads = <<>>
    /\ detected = <<>>
    /\ attempts = <<>>
    /\ merged = NONE
    /\ stats = NoStats
    /\ zip_result = NoResult
    /\ st_errors = <<>>

\* what a step of a session leaves alone
SessionFrame ==
    UNCHANGED <<inputs, pc, file_paths, temp_files, idx, merged_content, encoding,
                reads, detected, attempts, merged, stats, zip_result, st_errors>>

\* render_file_upload of session s: every upload is written to
\* os.path.join(tempfile.gettempdir(), uploaded_file.name)
SessionUpload(s) ==
    /\ sessions[s].pc = "start"
    /\ LET ups == sessions[s].uploaded_files
           paths == [i \in 1..Len(ups) |-> PathJoin(TmpRoot, ups[i].name)]
           met == UNION {Touch(WriteUploads(fs, s, paths, ups, i - 1), paths[i],
                               <<s, i>>, "overwrite") : i \in 1..Len(ups)}
       IN  /\ fs' = WriteUploads(fs, s, paths, ups, Len(ups))
           /\ sessions' = [sessions EXCEPT ![s].pc = "loop",
                                           ![s].file_paths = paths,
                                           ![s].temp_files = paths,
                                           ![s].foreign = @ \cup met]
    /\ SessionFrame

\* one iteration of merge_files in session s
SessionRead(s) ==
    /\ sessions[s].pc = "loop"
    /\ LET paths == sessions[s].file_paths
           i == Len(SelectSeq(sessions[s].merged_content,
                              LAMBDA p : p.kind = "content")) + 1
           file_path == LoopPath(paths, i)
           r == read_file_content(fs, file_path)
           withContent == sessions[s].merged_content
                          \o <<Piece("header", Header(basename(file_path)), TRUE, "", ""),
                               Piece("content", r.content, r.ok, "",
                                     OpenError(fs, file_path))>>
           withSep == IF NotLast(file_path, paths)
                      THEN Append(withContent,
                                  Piece("separator", separator, TRUE, "", ""))
                      ELSE withContent
       IN  sessions' = [sessions EXCEPT
                           ![s].merged_content = withSep,
                           ![s].foreign = @ \cup Touch(fs, file_path, <<s, i>>, "read"),
                           ![s].pc = IF i = Len(paths) THEN "merged" ELSE "loop",
                           ![s].merged = IF i = Len(paths) THEN Join(Texts(withSep))
                                         ELSE @]
    /\ UNCHANGED fs
    /\ SessionFrame

\* process_merge of session s saves the document to
\* os.path.join(tempfile.gettempdir(), output_filename)
SessionSave(s) ==
    /\ sessions[s].pc = "merged"
    /\ LET output_path == PathJoin(TmpRoot, sessions[s].output_filename)
       IN  /\ fs' = [p \in DOMAIN fs \cup {output_path} |->
                        IF p = output_path
                        THEN OwnedFile(sessions[s].merged, "utf-8", <<s, 0>>)
                        ELSE fs[p]]
           /\ sessions' = [sessions EXCEPT
                               ![s].pc = "saved",
                               ![s].foreign = @ \cup Touch(fs, output_path, <<s, 0>>,
                                                           "overwrite")]
    /\ SessionFrame

\* render_download_button reads output_path back, then render_statistics
\* reports; when the read raises, process_merge shows the error instead
SessionDownload(s) ==
    /\ sessions[s].pc = "saved"
    /\ LET output_path == PathJoin(TmpRoot, sessions[s].output_filename)
           readable == /\ OpenError(fs, output_path) = "ok"
                       /\ Decodable(fs[output_path].data, "utf-8")
       IN  sessions' = [sessions EXCEPT
                           ![s].pc = "reported",
                           ![s].foreign = @ \cup Touch(fs, output_path, <<s, 0>>, "read"),
                           ![s].download = IF readable
                                           THEN [shown |-> TRUE,
                                                 content |-> fs[output_path].data]
                                           ELSE @,
                           ![s].stats = IF readable
                                        THEN render_statistics(sessions[s].merged,
                                                               sessions[s].file_paths)
                                        ELSE @]
    /\ UNCHANGED fs
    /\ SessionFrame

\* cleanup_temp_files of session s
SessionCleanup(s) ==
    /\ sessions[s].pc = "reported"
    /\ LET paths == sessions[s].temp_files
           met == UNION {Touch(RemoveAll(fs, paths, i - 1), paths[i], <<s, i>>,
                               "delete") : i \in 1..Len(paths)}
       IN  /\ fs' = RemoveAll(fs, paths, Len(paths))
           /\ sessions' = [sessions EXCEPT ![s].pc = "done",
                                           ![s].foreign = @ \cup met]
    /\ SessionFrame

NextSessions ==
    \E s \in Sessions :
        \/ SessionUpload(s)
        \/ SessionRead(s)
        \/ SessionSave(s)
        \/ SessionDownload(s)
        \/ SessionCleanup(s)

SpecSessions == InitSessions /\ [][NextSessions]_vars

\* read_file_content for an upload stored under a path of its own
OwnRead(u) ==
    LET p == PathJoin(TmpRoot, u.name)
    IN  read_file_content((p :> File(u.data, u.guess)), p)

(***************************************************************************)
(* Vocabulary of the properties.                                           *)
(***************************************************************************)
\* merge_files has returned
Finished == pc \in {"merged", "done"}

\* the pieces of one kind, in the order they were appended
PiecesOf(kind) == SelectSeq(merged_content, LAMBDA p : p.kind = kind)

Headers == PiecesOf("header")
Contents == PiecesOf("content")
SeparatorPieces == PiecesOf("separator")

\* text starts with the error marker "[Error"
IsErrorMarker(text) ==
    Len(text) >= 6 /\ SubSeq(text, 1, 6) = <<"[", "E", "r", "r", "o", "r">>

\* text is an error marker that names the path and is closed by ']'
IsSentinelFor(text, path) ==
    /\ IsErrorMarker(text)
    /\ text[Len(text)] = "]"
    /\ \E k \in 1..(Len(text) - Len(path) + 1) :
          SubSeq(text, k, k + Len(path) - 1) = path

\* the file system right after the upload, before anything failed
PristineFs == WriteAll(<<>>, file_paths, uploaded_files)

\* what read_file_content returns for the i-th path when no file fails
PristineRead(i) ==
    LET p == file_paths[i]
        r == primary_read(PristineFs, p, detect_encoding(PristineFs, p))
    IN  IF r.outcome = "decode_error" THEN fallback_read(PristineFs, p) ELSE r

\* the bytes last uploaded under the name of the i-th path
UploadedData(i) ==
    LET last == CHOOSE k \in 1..Len(uploaded_files) :
                   /\ uploaded_files[k].name = uploaded_files[i].name
                   /\ \A j \in 1..Len(uploaded_files) :
                         uploaded_files[j].name = uploaded_files[i].name => j <= k
    IN  uploaded_files[last].data

\* C1: when merge_files has returned for a list of N paths, its output is
\* made of exactly N headers and N-1 separators: it starts with a header,
\* every content but the last is directly followed by a separator, and
\* nothing follows the last content.
C1_SeparatorPlacement ==
    Finished =>
        LET n == Len(file_paths)
            m == Len(merged_content)
        IN  /\ Len(Headers) = n
            /\ Len(SeparatorPieces) = n - 1
            /\ merged_content[1].kind = "header"
            /\ merged_content[m].kind = "content"
            /\ \A j \in 1..(m - 1) :
                  merged_content[j].kind = "content"
                      => merged_content[j + 1].kind = "separator"
            /\ \A j \in 1..m :
                  merged_content[j].kind = "separator"
                      => j > 1 /\ merged_content[j - 1].kind = "content"

\* C2: the read log is always the prefix of the path list processed so far
\* (one read per position, in list order); headers and contents alternate;
\* the i-th header is the header of the i-th path and the i-th content is a
\* result of reading the i-th path; a finished merge covers every position.
C2_OrderAuthoritative ==
    LET hc == SelectSeq(merged_content, LAMBDA p : p.kind # "separator")
    IN  /\ Len(reads) <= Len(file_paths)
        /\ reads = SubSeq(file_paths, 1, Len(reads))
        /\ Len(Headers) = Len(reads)
        /\ \A j \in 1..Len(hc) :
              hc[j].kind = IF j % 2 = 1 THEN "header" ELSE "content"
        /\ \A i \in 1..Len(Headers) :
              Headers[i].text =
                  <<"\n">> \o uploaded_files[i].name \o <<":", "\n">>
                  \o [k \in 1..(Len(uploaded_files[i].name) + 1) |-> "-"] \o <<"\n">>
        /\ \A i \in 1..Len(Contents) :
              \/ IsSentinelFor(Contents[i].text, file_paths[i])
              \/ Contents[i].text = PristineRead(i).content
        /\ Finished => reads = file_paths /\ Len(Contents) = Len(file_paths)

\* C2 witness: a finished merge of two different paths given in descending
\* order, both read successfully
C2_Witness ==
    /\ Finished
    /\ Len(file_paths) = 2
    /\ StrLess(file_paths[2], file_paths[1])
    /\ reads = file_paths
    /\ \A i \in 1..2 : Contents[i].ok /\ Contents[i].text # <<>>

\* the document of the example: foo.txt ("hi") then bar.txt ("bye"), default
\* separator
FooBarDocument ==
    <<"\n", "f", "o", "o", ".", "t", "x", "t", ":", "\n",
      "-", "-", "-", "-", "-", "-", "-", "-", "\n", "h", "i", "\n">>
    \o [k \in 1..80 |-> "="]
    \o <<"\n", "\n", "b", "a", "r", ".", "t", "x", "t", ":", "\n",
         "-", "-", "-", "-", "-", "-", "-", "-", "\n", "b", "y", "e">>

FooBarUpload ==
    <<[name |-> foo_txt, data |-> <<"h", "i">>, guess |-> "ascii"],
      [name |-> bar_txt, data |-> <<"b", "y", "e">>, guess |-> "ascii"]>>

\* C3: every header is a line break, the base name, a colon, a line break,
\* len(basename)+1 dashes and a line break, and the piece appended right
\* after it is the file's content; merging foo.txt ("hi") and bar.txt ("bye")
\* with the default separator returns exactly the document of the example.
C3_HeaderFormat ==
    /\ \A j \in 1..Len(merged_content) :
          merged_content[j].kind = "header" =>
              LET i == Len(SelectSeq(SubSeq(merged_content, 1, j),
                                     LAMBDA p : p.kind = "header"))
                  name == uploaded_files[i].name
                  text == merged_content[j].text
              IN  /\ Len(text) = 2 * Len(name) + 5
                  /\ text[1] = "\n"
                  /\ SubSeq(text, 2, Len(name) + 1) = name
                  /\ text[Len(name) + 2] = ":"
                  /\ text[Len(name) + 3] = "\n"
                  /\ \A k \in (Len(name) + 4)..(2 * Len(name) + 4) : text[k] = "-"
                  /\ text[2 * Len(name) + 5] = "\n"
                  /\ j < Len(merged_content) => merged_content[j + 1].kind = "content"
    /\ ( /\ Finished
         /\ uploaded_files = FooBarUpload
         /\ separator = DefaultSeparator
         /\ \A i \in 1..Len(Contents) : Contents[i].ok )
       => merged = FooBarDocument

\* C3 witness: the example has been merged into the expected document
C3_Witness ==
    /\ Finished
    /\ uploaded_files = FooBarUpload
    /\ separator = DefaultSeparator
    /\ merged = FooBarDocument

\* C4 as stated: a finished merge has a header for every path; the segment
\* of every file that was missing, unreadable or undecodable under its
\* detected encoding holds a sentinel naming the path; every other segment
\* is what it is when no file fails.
C4_Original ==
    Finished =>
        /\ Len(Headers) = Len(file_paths)
        /\ Len(Contents) = Len(file_paths)
        /\ \A i \in 1..Len(Contents) :
              IF Contents[i].open # "ok" \/ Contents[i].via = "fallback"
              THEN IsSentinelFor(Contents[i].text, file_paths[i])
              ELSE Contents[i].text = PristineRead(i).content

\* C4 (amended): a finished merge has a header and a content for every path;
\* the segment of every file that was missing or unreadable when it was
\* opened holds a sentinel naming the path, with ok = false; every other
\* segment, the one of a file undecodable under its detected encoding
\* included, is what it is when no file fails; and a segment with ok = false
\* is always a sentinel naming its path.
C4_ReadFailureContained ==
    Finished =>
        /\ merged # NONE
        /\ Len(Headers) = Len(file_paths)
        /\ Len(Contents) = Len(file_paths)
        /\ \A i \in 1..Len(Contents) :
              /\ Contents[i].open # "ok"
                    => ~Contents[i].ok /\ IsSentinelFor(Contents[i].text, file_paths[i])
              /\ Contents[i].open = "ok"
                    => /\ Contents[i].text = PristineRead(i).content
                       /\ Contents[i].ok = PristineRead(i).ok
              /\ ~Contents[i].ok => IsSentinelFor(Contents[i].text, file_paths[i])

\* C4 witness: a finished merge of two files, one removed before its fallback
\* attempt, the other read successfully
C4_Witness ==
    /\ Finished
    /\ Len(file_paths) = 2
    /\ \E i, j \in 1..2 :
          /\ Contents[i].open = "ENOENT"
          /\ Contents[i].via = "fallback"
          /\ IsSentinelFor(Contents[i].text, file_paths[i])
          /\ Contents[j].ok
          /\ Contents[j].text # <<>>

\* C5 as stated: whenever the detected encoding failed and the fallback was
\* tried, the segment is an error marker and ok is false.
C5_Original ==
    \A i \in 1..Len(Contents) :
        Contents[i].via = "fallback"
            => ~Contents[i].ok /\ IsErrorMarker(Contents[i].text)

\* C5 (amended): when the detected encoding failed and the fallback was
\* tried, the segment is an error marker with ok = false exactly when the
\* fallback could not open the file; otherwise it is the file's bytes with
\* the bytes invalid in UTF-8 dropped, ok = true and no error marker.  Either
\* way the merge goes on to return a content for every path.
C5_FallbackOutcome ==
    /\ \A i \in 1..Len(Contents) :
          Contents[i].via = "fallback" =>
              IF Contents[i].open = "ok"
              THEN /\ Contents[i].ok
                   /\ Contents[i].text =
                          SelectSeq(UploadedData(i), LAMBDA b : b \notin HighBytes)
                   /\ ~IsErrorMarker(Contents[i].text)
              ELSE /\ ~Contents[i].ok
                   /\ IsErrorMarker(Contents[i].text)
    /\ Finished => Len(Contents) = Len(file_paths)

\* C5 witness: a finished merge holding a fallback segment with dropped
\* bytes and a fallback segment with the error marker
C5_Witness ==
    /\ Finished
    /\ \E i, j \in 1..Len(Contents) :
          /\ Contents[i].via = "fallback" /\ Contents[i].ok
          /\ Len(Contents[i].text) < Len(UploadedData(i))
          /\ Contents[j].via = "fallback" /\ ~Contents[j].ok
          /\ IsErrorMarker(Contents[j].text)

\* the extension of a name is in the allow-list: the name ends, ignoring
\* case, with a listed extension that is not the whole name
HasListedExtension(name) ==
    \E e \in SUPPORTED_EXTENSIONS :
        /\ Len(name) > Len(e)
        /\ Lower(SubSeq(name, Len(name) - Len(e) + 1, Len(name))) = e

\* the last component of an entry name
EntryBase(name) == SubSeq(name, RFind(name, "/") + 1, Len(name))

\* the directory extract_zip_files extracted into
TempDir == PathJoin(TmpRoot, <<"t", "m", "p", "0">>)

\* extraction succeeded and extract_zip_files returned its list
Expanded == zip_file.failsAt = 0 /\ zip_result.kind = "list" /\ pc # "start"

\* C6: the list returned for a valid archive is strictly ascending in
\* code-point order of the full paths, and its elements are determined by
\* the set of entry names alone, so every archive order of the same entries
\* gives the same list; entries b.py, a.txt, c.md give a.txt, b.py, c.md.
C6_SortedListing ==
    Expanded =>
        LET paths == zip_result.paths
        IN  /\ \A i \in 1..(Len(paths) - 1) : StrLess(paths[i], paths[i + 1])
            /\ Range(paths) =
                  {PathJoin(TempDir, n) :
                      n \in {m \in Range(zip_file.entries) :
                                ~IsDirEntry(m) /\ HasListedExtension(EntryBase(m))}}
            /\ Range(zip_file.entries) =
                  {<<"b", ".", "p", "y">>, <<"a", ".", "t", "x", "t">>, <<"c", ".", "m", "d">>}
               => paths = <<PathJoin(TempDir, <<"a", ".", "t", "x", "t">>),
                            PathJoin(TempDir, <<"b", ".", "p", "y">>),
                            PathJoin(TempDir, <<"c", ".", "m", "d">>)>>

\* C6 witness: the archive b.py, a.txt, c.md was expanded to a.txt, b.py, c.md
C6_Witness ==
    /\ Expanded
    /\ zip_file.entries =
          <<<<"b", ".", "p", "y">>, <<"a", ".", "t", "x", "t">>, <<"c", ".", "m", "d">>>>
    /\ zip_result.paths = <<PathJoin(TempDir, <<"a", ".", "t", "x", "t">>),
                            PathJoin(TempDir, <<"b", ".", "p", "y">>),
                            PathJoin(TempDir, <<"c", ".", "m", "d">>)>>

\* C7: the list returned for a valid archive has no path twice and holds
\* exactly the regular files below the extraction directory whose extension
\* is in the allow-list (ignoring case, at any depth); x.exe, README, the
\* dot-file .py and the directory d are never in it.
C7_EligibleExactlyOnce ==
    Expanded =>
        LET paths == zip_result.paths
        IN  /\ \A i, j \in 1..Len(paths) : paths[i] = paths[j] => i = j
            /\ \A p \in DOMAIN fs :
                  p \in Range(paths) <=>
                      /\ fs[p].kind = "file"
                      /\ Len(p) > Len(TempDir) + 1
                      /\ SubSeq(p, 1, Len(TempDir) + 1) = TempDir \o <<"/">>
                      /\ HasListedExtension(EntryBase(p))
            /\ Range(paths) \subseteq DOMAIN fs
            /\ \A n \in {<<"x", ".", "e", "x", "e">>, <<"R", "E", "A", "D", "M", "E">>,
                         <<".", "p", "y">>, <<"d">>} :
                  PathJoin(TempDir, n) \notin Range(paths)

\* C7 witness: an archive with a nested upper-case .TXT, an .exe and a
\* duplicated eligible entry was expanded to the two eligible files
C7_Witness ==
    /\ Expanded
    /\ Range(zip_file.entries) =
          {<<"d", "/", "E", ".", "T", "X", "T">>, <<"x", ".", "e", "x", "e">>,
           <<"b", ".", "p", "y">>}
    /\ Len(zip_result.paths) = 2
    /\ PathJoin(TempDir, <<"d", "/", "E", ".", "T", "X", "T">>) \in Range(zip_result.paths)

\* C8: when extraction fails, extract_zip_files raises one error and returns
\* no list, not even an empty one, and no merge is started.
C8_FailClosed ==
    (zip_file.failsAt # 0 /\ pc # "start") =>
        /\ zip_result.kind = "raise"
        /\ Len(st_errors) = 1
        /\ pc # "loop"

\* C9: the statistics reported for a text and a path list are the length of
\* the list, the length of the text and the number of line breaks plus one;
\* the empty text has 1 line, a text with 3 line breaks has 4.
C9_Statistics ==
    stats # NoStats =>
        LET breaks == Len(SelectSeq(merged, LAMBDA c : c = "\n"))
        IN  /\ stats.file_count = Len(file_paths)
            /\ stats.char_count = Len(merged)
            /\ stats.line_count = breaks + 1
            /\ merged = <<>> => stats.line_count = 1
            /\ breaks = 3 => stats.line_count = 4

\* C9 witness: the statistics of a text with exactly 3 line breaks
C9_Witness ==
    /\ pc = "reported"
    /\ merged = <<"\n", "a", "\n", "\n">>
    /\ stats.line_count = 4
    /\ stats.char_count = 4

\* C10: every call of detect_encoding returned the name of an encoding, and
\* it returned 'utf-8' whenever the file could not be opened or chardet
\* reported no encoding.
C10_DetectCannotFail ==
    /\ Len(detected) = Len(reads)
    /\ \A i \in 1..Len(detected) :
          /\ detected[i].encoding \in {"ascii", "utf-8", "ISO-8859-1", "GB2312", "EUC-TW"}
          /\ (detected[i].open # "ok" \/ detected[i].guess = NONE)
                => detected[i].encoding = "utf-8"

\* C10 witness: detect_encoding was called on a missing file and on a file
\* chardet could not classify, and returned 'utf-8' both times
C10_Witness ==
    \E i, j \in 1..Len(detected) :
        /\ detected[i].open = "ENOENT" /\ detected[i].encoding = "utf-8"
        /\ detected[j].open = "ok" /\ detected[j].guess = NONE
        /\ detected[j].encoding = "utf-8"

\* the attempts made for the k-th call of read_file_content, in order
AttemptsOf(k) == SelectSeq(attempts, LAMBDA a : a.read = k)

\* the first attempt of the k-th read met a decode error and nothing else:
\* the file opened, Python knows the codec, and some byte is invalid in it
DecodeSpecificFailure(k, a) ==
    /\ a.open = "ok"
    /\ a.encoding \in KnownCodecs
    /\ \E i \in 1..Len(UploadedData(k)) :
          UploadedData(k)[i] \in HighBytes /\ a.encoding # "ISO-8859-1"

\* C11: read_file_content follows a fixed one-shot fallback order and tags
\* its result consistently.  For every call: the first attempt is the
\* primary one, with the detected encoding; a fallback attempt is made at
\* most once, and only after the primary attempt raised a decode error (the
\* file opened, the codec exists, a byte is invalid); any other failure of
\* the primary attempt, and any failure of the fallback attempt, ends the
\* call with the sentinel; and the returned flag is false exactly when the
\* call ended in a failed attempt, its content then being the sentinel that
\* names the path, and true exactly when the content is the text decoded by
\* the attempt that ended the call.
C11_OneShotFallback ==
    \A k \in 1..Len(reads) :
        LET as == AttemptsOf(k)
            data == UploadedData(k)
        IN  /\ Len(as) <= 2
            /\ Len(as) >= 1 =>
                  /\ as[1].attempt = "primary"
                  /\ as[1].encoding = detected[k].encoding
                  /\ as[1].outcome = "decode_error" <=> DecodeSpecificFailure(k, as[1])
                  /\ as[1].outcome = "text" <=>
                        /\ as[1].open = "ok"
                        /\ as[1].encoding \in KnownCodecs
                        /\ ~DecodeSpecificFailure(k, as[1])
            /\ Len(as) = 2 =>
                  /\ as[2].attempt = "fallback"
                  /\ as[1].outcome = "decode_error"
                  /\ as[2].outcome \in {"text", "error"}
                  /\ as[2].outcome = "text" <=> as[2].open = "ok"
            /\ IF k <= Len(Contents)
               THEN LET last == as[Len(as)]
                        c == Contents[k]
                    IN  /\ Len(as) >= 1
                        /\ last.outcome \in {"text", "error"}
                        /\ c.via = last.attempt
                        /\ c.ok <=> last.outcome = "text"
                        /\ ~c.ok => IsSentinelFor(c.text, reads[k])
                        /\ (c.ok /\ last.attempt = "primary") =>
                              c.text = [i \in 1..Len(data) |->
                                           DecodeByte(data[i], last.encoding)]
                        /\ (c.ok /\ last.attempt = "fallback") =>
                              c.text = SelectSeq(data, LAMBDA b : b \notin HighBytes)
               ELSE \/ pc = "primary" /\ as = <<>>
                    \/ /\ pc = "fallback" /\ Len(as) = 1
                       /\ as[1].outcome = "decode_error"

\* C11 witness: a finished merge in which one call fell back once after a
\* decode error and returned decoded text with ok = true, and another call
\* opened its file, failed on an unknown codec, made no fallback attempt and
\* returned the sentinel with ok = false
C11_Witness ==
    /\ Finished
    /\ \E i, j \in 1..Len(Contents) :
          /\ Len(AttemptsOf(i)) = 2
          /\ AttemptsOf(i)[1].outcome = "decode_error"
          /\ AttemptsOf(i)[2].outcome = "text"
          /\ Contents[i].ok
          /\ Len(AttemptsOf(j)) = 1
          /\ AttemptsOf(j)[1].open = "ok"
          /\ AttemptsOf(j)[1].outcome = "error"
          /\ ~Contents[j].ok
          /\ IsSentinelFor(Contents[j].text, reads[j])

\* the contents session s has read so far, in order
SessionContents(s) ==
    SelectSeq(sessions[s].merged_content, LAMBDA p : p.kind = "content")

\* C12: merge invocations share no scratch state.  No session reads,
\* overwrites or deletes a path written for another item (an upload copy or
\* the saved document) of a session running at the same time or of its own;
\* so every content a session merges is what read_file_content returns for
\* that upload alone, the document offered for download is the session's
\* own merged result, and its statistics are those of its own result,
\* whatever the upload names and the output name are.
C12_NoSharedScratch ==
    \A s \in Sessions :
        /\ sessions[s].foreign = {}
        /\ \A i \in 1..Len(SessionContents(s)) :
              SessionContents(s)[i].text = OwnRead(sessions[s].uploaded_files[i]).content
        /\ sessions[s].pc \in {"reported", "done"} =>
              /\ sessions[s].download = [shown |-> TRUE, content |-> sessions[s].merged]
              /\ sessions[s].stats =
                     render_statistics(sessions[s].merged, sessions[s].uploaded_files)

\* what the copy that did not run returns for the archive and walk order w
OtherCopyExtract(w) ==
    IF copy = "app" THEN extract_zip_files_script(zip_file, w)
    ELSE extract_zip_files(zip_file, w)

\* C13: the two copies of the pipeline are observationally equivalent.  Once
\* a copy has handled an uploaded archive, what its extract_zip_files did
\* (the listing it returned, or the error it raised, and what it showed) is
\* what the extract_zip_files of the other copy does for the same archive
\* under some order of the directory walk, failing archives included, and
\* the two is_text_file agree on every extracted path.
C13_CopiesEquivalent ==
    pc # "start" =>
        /\ \E w \in WalkOrders(fs, TempDir) : zip_result = OtherCopyExtract(w)
        /\ \A p \in DOMAIN fs : is_text_file(p) = is_text_file_script(p)

====
